---- MODULE Spec2Model ----
(***************************************************************************)
(* ESP32 Air Drums: the UDP receive loop (src/src/udp_server.py), the MIDI *)
(* packet handler (src/src/midi_handler.py), the drum audio engine         *)
(* (src/src/audio_engine.py), the drum display (src/src/ui.py) and the     *)
(* wiring of main (src/src/main.py).                                       *)
(*                                                                         *)
(* Bytes are the integers 0..255.  Python indices are kept 0-based: the    *)
(* byte data[i] of the source is data[i + 1] here.                         *)
(***************************************************************************)
EXTENDS Integers, Sequences, FiniteSets, TLC

VARIABLES
    mido,               \* midi_handler.py:3-6   is the mido import available
    control_change_cb,  \* midi_handler.py:23    is a control-change callback registered
    running,            \* udp_server.py:19      the _running event
    sock_open,          \* udp_server.py:16      the socket is not closed
    pc,                 \* udp_server.py:27-39   position of the receive thread
    data,               \* udp_server.py:30     the datagram last received, handle_packet's data
    path,               \* midi_handler.py:30-40 which parser is running: "mido" or "fallback"
    msgs,               \* midi_handler.py:32    the list mido.parse_all returned
    i,                  \* midi_handler.py:40    scan cursor (index into msgs on the mido path)
    calls,              \* the callbacks made for the datagram being handled, in order
    pass_start,         \* how many of them the mido pass made before the fallback pass began
    active,             \* audio_engine.py:18    AudioEngine._active: note -> channel
    channels,           \* pygame.mixer's playback channels
    volume,             \* the volume of each pygame.mixer.Sound of _drum_samples
    caught,             \* udp_server.py:35-39  a traceback of on_packet has been printed
    stop_returned,      \* udp_server.py:41-48  UDPServer.stop() has returned
    ui,                 \* ui.py                the state of MidiUI and of its Tk canvas
    synth               \* audio_engine.py:77-233 a waveform on its way to a Sound

vars == <<mido, control_change_cb, running, sock_open, pc, data, path, msgs, i,
          calls, pass_start, active, channels, volume, caught, stop_returned,
          ui, synth>>

(***************************************************************************)
(* Bounds of the model.                                                    *)
(***************************************************************************)
MaxLen == 4        \* longest datagram drawn from all byte strings over Bytes
MaxMsgs == 2       \* most complete messages in a datagram built from messages
NumChannels == 2   \* playback channels of the mixer
MaxJunk == 3       \* most bytes in front of the message of a prefixed datagram
MaxHits == 3       \* most drum-hit animations started on the display
NumSamples == 3    \* samples of a synthesized waveform
MaxAmp == 2        \* largest magnitude of a sample before it is normalised

\* 0x00 0x24 0x64 0x80 0x90 0x99 0xB0 0xC0 0xFF
Bytes == {0, 36, 100, 128, 144, 153, 176, 192, 255}

\* complete 3-byte messages: status 0x89 0x99 0xB0, note 0x24, value 0x00 0x40 0x64
MsgStatus == {137, 153, 176}
MsgNotes == {36}
MsgValues == {0, 64, 100}
Messages == {<<s, a, b>> : s \in MsgStatus, a \in MsgNotes, b \in MsgValues}

\* what may follow the last complete message: nothing, or a truncated message
Tails == {<<>>, <<144>>, <<144, 36>>, <<128, 36>>}

SeqsUpTo(S, n) == UNION {[1..m -> S] : m \in 0..n}

RECURSIVE Flatten(_)
Flatten(ss) == IF ss = <<>> THEN <<>> ELSE Head(ss) \o Flatten(Tail(ss))

MsgBuffers == {Flatten(ms) \o t : ms \in SeqsUpTo(Messages, MaxMsgs), t \in Tails}

\* bytes that are no supported status byte: data bytes 0x00 0x24, the
\* unimplemented statuses 0xC0 0xF0 0xFF
JunkBytes == {0, 36, 192, 240, 255}

\* one complete message behind bytes that belong to no supported message
JunkBuffers == {p \o m : p \in SeqsUpTo(JunkBytes, MaxJunk), m \in Messages}

ParserBuffers == SeqsUpTo(Bytes, MaxLen) \cup MsgBuffers \cup JunkBuffers

\* datagrams of the running system: NoteOn / NoteOff for notes 36 (kick) and
\* 127 (unmapped), velocity 0 or 100, alone; a NoteOn and a NoteOff on channel
\* 9; a NoteOn followed by two NoteOffs; a NoteOn between an unsupported status
\* byte and a truncated message; a NoteOn cut after its note and the velocity
\* byte that would have followed
SysNotes == {36, 127}
SysValues == {0, 100}
SysMessages == {<<s, a, b>> : s \in {128, 144}, a \in SysNotes, b \in SysValues}
Datagrams ==
    SysMessages
    \cup {<<153, 36, 100, 137, 36, 64>>}
    \cup {<<144, a, 100, 128, a, 0, 128, a, 0>> : a \in SysNotes}
    \cup {<<192, 144, 127, 100, 144>>}
    \cup {<<144, 36>>, <<100>>}

None == 0
Min(S) == CHOOSE x \in S : \A y \in S : x <= y

(***************************************************************************)
(* AudioEngine                                                             *)
(***************************************************************************)
\* the keys of _drum_samples
drum_samples ==
    {"kick", "snare", "hihat_closed", "hihat_open", "tom_low", "tom_mid",
     "tom_high", "crash", "ride"}

\* _note_map
note_map ==
    (35 :> "kick") @@ (36 :> "kick") @@ (38 :> "snare") @@ (40 :> "snare") @@
    (42 :> "hihat_closed") @@ (44 :> "hihat_closed") @@ (46 :> "hihat_open") @@
    (47 :> "tom_low") @@ (48 :> "tom_mid") @@ (50 :> "tom_high") @@
    (49 :> "crash") @@ (51 :> "ride") @@ (52 :> "crash") @@ (53 :> "ride") @@
    (41 :> "tom_low") @@ (43 :> "tom_low") @@ (45 :> "tom_mid")

\* mutant of drum_type: the lookup without the "snare" default
drum_type_NoDefault(note) ==
    IF note \in DOMAIN note_map THEN note_map[note] ELSE "none"

\* self._note_map.get(note, "snare")
drum_type(note) == IF note \in DOMAIN note_map THEN note_map[note] ELSE "snare"

\* a channel that plays nothing
Idle == [sound |-> "none", note |-> -1, fading |-> FALSE]

\* Sound.set_volume(velocity / 127.0), in units of 1/127: pygame clamps the
\* volume to 1.0
set_volume(velocity) == IF velocity > 127 THEN 127 ELSE velocity

\* mutant of play: with every channel busy, the first channel is taken over
play_Steal(chs) ==
    LET free == {c \in 1..NumChannels : chs[c] = Idle}
    IN  IF free = {} THEN 1 ELSE Min(free)

\* Sound.play(): the first channel that plays nothing, None when all are busy
play(chs) ==
    LET free == {c \in 1..NumChannels : chs[c] = Idle}
    IN  IF free = {} THEN None ELSE Min(free)

Engine == [active |-> active, channels |-> channels, volume |-> volume]

\* mutant of note_on: the voice tracked for the note is faded out before the
\* new one is played
note_on_Steal(eng, note, velocity) ==
    LET dt == drum_type(note)
        chs == IF note \in DOMAIN eng.active
               THEN [eng.channels EXCEPT ![eng.active[note]].fading =
                        eng.channels[eng.active[note]] # Idle]
               ELSE eng.channels
        channel == play(chs)
    IN  IF channel = None
        THEN [eng EXCEPT !.channels = chs]
        ELSE [active |-> [n \in DOMAIN eng.active \cup {note} |->
                            IF n = note THEN channel ELSE eng.active[n]],
              channels |-> [chs EXCEPT ![channel] =
                              [sound |-> dt, note |-> note, fading |-> FALSE]],
              volume |-> [eng.volume EXCEPT ![dt] = set_volume(velocity)]]

\* AudioEngine.note_on(note, velocity)
note_on(eng, note, velocity) ==
    LET dt == drum_type(note)
    IN  IF dt \notin drum_samples
        THEN eng
        ELSE LET vol == [eng.volume EXCEPT ![dt] = set_volume(velocity)]
                 channel == play(eng.channels)
             IN  IF channel = None
                 THEN [eng EXCEPT !.volume = vol]
                 ELSE [active |-> [n \in DOMAIN eng.active \cup {note} |->
                                     IF n = note THEN channel ELSE eng.active[n]],
                       channels |-> [eng.channels EXCEPT ![channel] =
                                       [sound |-> dt, note |-> note, fading |-> FALSE]],
                       volume |-> vol]

\* Channel.fadeout(100): whatever plays on the channel fades out
fadeout(chs, c) ==
    IF chs[c] = Idle THEN chs ELSE [chs EXCEPT ![c].fading = TRUE]

\* mutant of note_off: the handle is looked up with get, not pop, and stays
note_off_Keep(eng, note) ==
    IF note \in DOMAIN eng.active
    THEN [eng EXCEPT !.channels = fadeout(eng.channels, eng.active[note])]
    ELSE eng

\* AudioEngine.note_off(note)
note_off(eng, note) ==
    IF note \in DOMAIN eng.active
    THEN [eng EXCEPT !.active = [n \in DOMAIN eng.active \ {note} |-> eng.active[n]],
                     !.channels = fadeout(eng.channels, eng.active[note])]
    ELSE eng

(***************************************************************************)
(* mido.parse_all as MidiHandler.handle_packet uses it                     *)
(***************************************************************************)
\* message length by status byte; 0 stands for "until 0xF7" (sysex)
MidoLength(status) ==
    IF status < 240
    THEN (IF status \div 16 \in {12, 13} THEN 2 ELSE 3)
    ELSE CASE status = 240 -> 0
           [] status = 241 -> 2
           [] status = 242 -> 3
           [] status = 243 -> 2
           [] OTHER -> 1

MidoDefined(status) == status \notin {244, 245, 249, 253}

MidoFeedByte(tok, byte) ==
    IF byte >= 128
    THEN IF byte = 247
         THEN [status |-> 0, bytes |-> tok.bytes,
               msgs |-> IF tok.status = 240
                        THEN Append(tok.msgs, Append(tok.bytes, 247))
                        ELSE tok.msgs]
         ELSE IF byte >= 248
         THEN [status |-> IF tok.status # 240 THEN 0 ELSE tok.status,
               bytes |-> tok.bytes,
               msgs |-> IF MidoDefined(byte) THEN Append(tok.msgs, <<byte>>)
                        ELSE tok.msgs]
         ELSE IF MidoDefined(byte)
         THEN IF MidoLength(byte) = 1
              THEN [status |-> 0, bytes |-> tok.bytes,
                    msgs |-> Append(tok.msgs, <<byte>>)]
              ELSE [status |-> byte, bytes |-> <<byte>>, msgs |-> tok.msgs]
         ELSE tok
    ELSE IF tok.status # 0
         THEN IF Len(tok.bytes) + 1 = MidoLength(tok.status)
              THEN [status |-> 0, bytes |-> <<>>,
                    msgs |-> Append(tok.msgs, Append(tok.bytes, byte))]
              ELSE [tok EXCEPT !.bytes = Append(tok.bytes, byte)]
         ELSE tok

RECURSIVE MidoFeed(_, _, _)
MidoFeed(tok, d, j) ==
    IF j > Len(d) THEN tok.msgs ELSE MidoFeed(MidoFeedByte(tok, d[j]), d, j + 1)

\* mido.parse_all(data)
parse_all(d) == MidoFeed([status |-> 0, bytes |-> <<>>, msgs |-> <<>>], d, 1)

(***************************************************************************)
(* MidiHandler                                                             *)
(***************************************************************************)
NoEvent == [kind |-> "none", a |-> 0, b |-> 0]

\* _handle_mido_message(msg): the callback it makes
_handle_mido_message(msg, cc) ==
    LET typ == (msg[1] \div 16) * 16
    IN  IF typ = 144 /\ Len(msg) = 3
        THEN (IF msg[3] > 0
              THEN [kind |-> "note_on", a |-> msg[2], b |-> msg[3]]
              ELSE [kind |-> "note_off", a |-> msg[2], b |-> 0])
        ELSE IF typ = 128 /\ Len(msg) = 3
        THEN [kind |-> "note_off", a |-> msg[2], b |-> 0]
        ELSE IF typ = 176 /\ Len(msg) = 3 /\ cc
        THEN [kind |-> "control_change", a |-> msg[2], b |-> msg[3]]
        ELSE NoEvent

\* mutant of FallbackMessageAt: the length test is off by one, i + 3 < len(data)
FallbackMessageAt_OffByOne(d, j) ==
    LET status == d[j + 1]
        typ == (status \div 16) * 16
    IN  /\ status >= 128 /\ status <= 239
        /\ typ \in {128, 144, 176}
        /\ j + 3 < Len(d)

\* mutant of FallbackMessageAt: a NoteOff is taken with its note byte alone
FallbackMessageAt_ShortNoteOff(d, j) ==
    LET status == d[j + 1]
        typ == (status \div 16) * 16
    IN  /\ status >= 128 /\ status <= 239
        /\ typ \in {128, 144, 176}
        /\ (j + 2 < Len(d) \/ (typ = 128 /\ j + 1 < Len(d)))

\* mutant of FallbackMessageAt: every channel status byte with two bytes behind
\* it is taken for a 3-byte message
FallbackMessageAt_AnyStatus(d, j) ==
    LET status == d[j + 1]
    IN  /\ status >= 128 /\ status <= 239
        /\ j + 2 < Len(d)

\* is a complete supported message read at cursor j (0-based) of the fallback scan
FallbackMessageAt(d, j) ==
    LET status == d[j + 1]
        typ == (status \div 16) * 16
    IN  /\ status >= 128 /\ status <= 239
        /\ typ \in {128, 144, 176}
        /\ j + 2 < Len(d)

\* mutant of FallbackEvent: a NoteOn is passed on whatever its velocity
FallbackEvent_NoZeroVelocity(d, j, cc) ==
    LET typ == (d[j + 1] \div 16) * 16
        a == d[j + 2]
        b == d[j + 3]
    IN  IF typ = 144
        THEN [kind |-> "note_on", a |-> a, b |-> b]
        ELSE IF typ = 128
        THEN [kind |-> "note_off", a |-> a, b |-> 0]
        ELSE IF typ = 176 /\ cc
        THEN [kind |-> "control_change", a |-> a, b |-> b]
        ELSE NoEvent

\* the callback the fallback scan makes for the message at cursor j
FallbackEvent(d, j, cc) ==
    LET typ == (d[j + 1] \div 16) * 16
        a == d[j + 2]
        b == d[j + 3]
    IN  IF typ = 144
        THEN (IF b > 0
              THEN [kind |-> "note_on", a |-> a, b |-> b]
              ELSE [kind |-> "note_off", a |-> a, b |-> 0])
        ELSE IF typ = 128
        THEN [kind |-> "note_off", a |-> a, b |-> 0]
        ELSE IF typ = 176 /\ cc
        THEN [kind |-> "control_change", a |-> a, b |-> b]
        ELSE NoEvent

(***************************************************************************)
(* main: the callbacks given to MidiHandler                                *)
(***************************************************************************)
\* the engine after the callback for event ev
CallbackEngine(eng, ev) ==
    IF ev.kind = "note_on" THEN note_on(eng, ev.a, ev.b)
    ELSE IF ev.kind = "note_off" THEN note_off(eng, ev.a)
    ELSE eng

\* does the callback for ev raise: main.note_on calls ui.show_note after
\* engine.note_on, and show_note_ok tells whether the observer succeeded
CallbackRaises(ev, show_note_ok) == ev.kind = "note_on" /\ ~show_note_ok

Called(ev) == IF ev.kind = "none" THEN calls ELSE Append(calls, ev)

SetEngine(eng) ==
    /\ active' = eng.active
    /\ channels' = eng.channels
    /\ volume' = eng.volume

(***************************************************************************)
(* MidiUI: the drum display.  An animation is named by the number of the   *)
(* hit that started it; the ripple ovals it created are the canvas items   *)
(* <<animation, k>>; its pending root.after callback is its entry in       *)
(* timers, which holds the step_count the callback will read.              *)
(***************************************************************************)
steps == 15
num_ripples == 2

\* self.note_to_drum, the drum name of each entry
note_to_drum ==
    (36 :> "kick") @@ (35 :> "kick") @@ (38 :> "snare") @@ (40 :> "snare") @@
    (42 :> "hihat") @@ (44 :> "hihat") @@ (46 :> "hihat") @@ (49 :> "crash") @@
    (52 :> "crash") @@ (51 :> "ride") @@ (53 :> "ride") @@ (50 :> "tom_high") @@
    (48 :> "tom_mid") @@ (47 :> "tom_low") @@ (45 :> "tom_low") @@
    (43 :> "tom_low") @@ (41 :> "tom_low")

\* the notes and velocities show_note is called with
UINotes == {36, 38, 127}
UIVelocities == {100}

Without(f, k) == [x \in DOMAIN f \ {k} |-> f[x]]

ripple_ids(a) == {<<a, k>> : k \in 1..num_ripples}

\* MidiUI.__init__: no drum kit drawn yet, nothing animated
NewUI ==
    [drum_kit_created |-> FALSE, drum_animations |-> <<>>, timers |-> <<>>,
     canvas |-> {}, hits |-> 0, info |-> None, show_note_thread |-> "none"]

\* animate_step of animation a, reading step_count
animate_step(u, a, drum_name, step_count) ==
    IF step_count + 1 > steps
    THEN [u EXCEPT !.canvas = u.canvas \ ripple_ids(a),
                   !.drum_animations = Without(u.drum_animations, drum_name),
                   !.timers = Without(u.timers, a)]
    ELSE [u EXCEPT !.timers = (a :> [drum |-> drum_name,
                                     step_count |-> step_count + 1])
                              @@ u.timers,
                   !.drum_animations = (drum_name :> a) @@ u.drum_animations]

\* _animate_drum_hit: cancel the timer tracked for the drum, create the
\* ripples, run the first animate_step
_animate_drum_hit(u, drum_name) ==
    LET a == u.hits + 1
        cancelled ==
            IF drum_name \in DOMAIN u.drum_animations
            THEN [u EXCEPT !.timers = Without(u.timers, u.drum_animations[drum_name])]
            ELSE u
        drawn == [cancelled EXCEPT !.canvas = cancelled.canvas \cup ripple_ids(a),
                                   !.hits = a]
    IN  animate_step(drawn, a, drum_name, 0)

\* does show_note raise: self.note_to_drum exists only once _on_resize has
\* drawn the drum kit
show_note_raises(u) == ~u.drum_kit_created

\* MidiUI.show_note, run by the thread that calls it
show_note(u, note, velocity, thread) ==
    LET entered == [u EXCEPT !.show_note_thread = thread]
    IN  IF show_note_raises(u) THEN entered
        ELSE IF note \notin DOMAIN note_to_drum
        THEN [entered EXCEPT !.info = note]
        ELSE _animate_drum_hit([entered EXCEPT !.info = note], note_to_drum[note])

\* MidiUI._on_resize with a meaningful size: canvas.delete('all') and
\* _create_drum_kit
_on_resize(u) == [u EXCEPT !.canvas = {}, !.drum_kit_created = TRUE]

(***************************************************************************)
(* AudioEngine._create_*: the end of every recipe, which normalises the    *)
(* waveform to a ceiling and converts it to 16-bit samples.  A waveform is *)
(* a sequence of integers in an arbitrary unit; ceilings are in hundredths.*)
(***************************************************************************)
full_scale == 32767

ceiling ==
    ("kick" :> 90) @@ ("snare" :> 85) @@ ("hihat_closed" :> 60) @@
    ("hihat_open" :> 50) @@ ("tom_low" :> 80) @@ ("tom_mid" :> 80) @@
    ("tom_high" :> 80) @@ ("crash" :> 60) @@ ("ride" :> 65)

Abs(x) == IF x < 0 THEN -x ELSE x
Max(S) == CHOOSE x \in S : \A y \in S : y <= x

\* astype(np.int16) of the quotient n / d: the fraction is dropped
Truncate(n, d) == IF n >= 0 THEN n \div d ELSE -((-n) \div d)

\* mutant of to_int16: the waveform is not divided by its peak
to_int16_NoPeak(wave, drum) ==
    [k \in DOMAIN wave |-> Truncate(wave[k] * ceiling[drum] * full_scale, 100)]

\* wave = wave / np.max(np.abs(wave)) * ceiling
\* audio = (wave * (2 ** 15 - 1)).astype(np.int16)
to_int16(wave, drum) ==
    LET peak == Max({Abs(wave[k]) : k \in DOMAIN wave})
    IN  [k \in DOMAIN wave |->
            Truncate(wave[k] * ceiling[drum] * full_scale, peak * 100)]

\* the waveforms of the recipes: every recipe adds a sine or noise that is
\* not zero everywhere
Waves == {w \in [1..NumSamples -> -MaxAmp..MaxAmp] : \E k \in 1..NumSamples : w[k] # 0}

NoSynth == [stage |-> "none", drum |-> "none", wave |-> <<>>, audio |-> <<>>]

(***************************************************************************)
(* Initial states                                                          *)
(***************************************************************************)
InitEngine ==
    /\ active = <<>>
    /\ channels = [c \in 1..NumChannels |-> Idle]
    /\ volume = [s \in drum_samples |-> 127]

\* mutant of Enter: the handler appends the datagram to the bytes it was
\* given before
Enter_Append(d) ==
    /\ data' = data \o d
    /\ path' = IF mido THEN "mido" ELSE "fallback"
    /\ msgs' = IF mido THEN parse_all(data \o d) ELSE <<>>
    /\ i' = 0
    /\ calls' = <<>>
    /\ pass_start' = 0

\* MidiHandler.handle_packet entered with datagram d
Enter(d) ==
    /\ data' = d
    /\ path' = IF mido THEN "mido" ELSE "fallback"
    /\ msgs' = IF mido THEN parse_all(d) ELSE <<>>
    /\ i' = 0
    /\ calls' = <<>>
    /\ pass_start' = 0

\* the running system of main: the server started, no packet received yet
Init ==
    /\ mido \in BOOLEAN
    /\ control_change_cb = FALSE
    /\ running = TRUE
    /\ sock_open = TRUE
    /\ pc = "loop"
    /\ data = <<>>
    /\ path = "fallback"
    /\ msgs = <<>>
    /\ i = 0
    /\ calls = <<>>
    /\ pass_start = 0
    /\ InitEngine
    /\ caught = FALSE
    /\ stop_returned = FALSE
    /\ ui = NewUI
    /\ synth = NoSynth

\* one call of handle_packet on a fresh handler and engine
InitParser ==
    /\ mido \in BOOLEAN
    /\ control_change_cb \in BOOLEAN
    /\ running = TRUE
    /\ sock_open = TRUE
    /\ pc = "handle"
    /\ data \in ParserBuffers
    /\ path = (IF mido THEN "mido" ELSE "fallback")
    /\ msgs = (IF mido THEN parse_all(data) ELSE <<>>)
    /\ i = 0
    /\ calls = <<>>
    /\ pass_start = 0
    /\ InitEngine
    /\ caught = FALSE
    /\ stop_returned = FALSE
    /\ ui = NewUI
    /\ synth = NoSynth

\* AudioEngine.__init__ about to build the Sound of one drum
InitSynth ==
    /\ mido = FALSE
    /\ control_change_cb = FALSE
    /\ running = FALSE
    /\ sock_open = FALSE
    /\ pc = "loop"
    /\ data = <<>>
    /\ path = "fallback"
    /\ msgs = <<>>
    /\ i = 0
    /\ calls = <<>>
    /\ pass_start = 0
    /\ InitEngine
    /\ caught = FALSE
    /\ stop_returned = FALSE
    /\ ui = NewUI
    /\ synth \in [stage : {"wave"}, drum : drum_samples, wave : Waves,
                  audio : {<<>>}]

(***************************************************************************)
(* UDPServer._recv_loop                                                    *)
(***************************************************************************)
\* while self._running.is_set()
LoopTest ==
    /\ pc = "loop"
    /\ pc' = IF running THEN "recv" ELSE "ended"
    /\ UNCHANGED <<mido, control_change_cb, running, sock_open, data, path, msgs,
                   i, calls, pass_start, active, channels, volume,
                   caught, stop_returned, ui, synth>>

\* recvfrom returns datagram d and on_packet is called with it
Receive(d) ==
    /\ pc = "recv"
    /\ sock_open
    /\ pc' = "handle"
    /\ Enter(d)
    /\ UNCHANGED <<mido, control_change_cb, running, sock_open, active, channels,
                   volume,
                   caught, stop_returned, ui, synth>>

\* recvfrom raises OSError: break
ReceiveError ==
    /\ pc = "recv"
    /\ pc' = "ended"
    /\ UNCHANGED <<mido, control_change_cb, running, sock_open, data, path, msgs,
                   i, calls, pass_start, active, channels, volume,
                   caught, stop_returned, ui, synth>>

\* mutant of ExceptHandler: the exception of on_packet ends the loop
ExceptHandler_Break ==
    /\ pc = "except"
    /\ pc' = "ended"
    /\ data' = data
    /\ path' = "fallback"
    /\ msgs' = <<>>
    /\ i' = 0
    /\ calls' = <<>>
    /\ pass_start' = 0
    /\ caught' = TRUE
    /\ UNCHANGED <<mido, control_change_cb, running, sock_open, active, channels,
                   volume, stop_returned, ui, synth>>

\* except Exception around on_packet: print the traceback, loop again
ExceptHandler ==
    /\ pc = "except"
    /\ pc' = "loop"
    /\ data' = data
    /\ path' = "fallback"
    /\ msgs' = <<>>
    /\ i' = 0
    /\ calls' = <<>>
    /\ pass_start' = 0
    /\ caught' = TRUE
    /\ UNCHANGED <<mido, control_change_cb, running, sock_open, active, channels,
                   volume, stop_returned, ui, synth>>

\* UDPServer.stop(): self._thread.join(timeout=1.0) is over, because the
\* thread has ended or because the second has passed
StopJoin ==
    /\ ~running
    /\ ~stop_returned
    /\ stop_returned' = TRUE
    /\ UNCHANGED <<mido, control_change_cb, running, sock_open, pc, data, path,
                   msgs, i, calls, pass_start, active, channels, volume, caught,
                   ui, synth>>

\* UDPServer.stop(): self._running.clear() and self._sock.close()
Stop ==
    /\ running
    /\ running' = FALSE
    /\ sock_open' = FALSE
    /\ UNCHANGED <<mido, control_change_cb, pc, data, path, msgs, i, calls, pass_start, active,
                   channels, volume,
                   caught, stop_returned, ui, synth>>

(***************************************************************************)
(* MidiHandler.handle_packet, one loop iteration per step                  *)
(***************************************************************************)
\* handle_packet returns to _recv_loop
Return ==
    /\ pc' = "loop"
    /\ data' = data
    /\ path' = "fallback"
    /\ msgs' = <<>>
    /\ i' = 0
    /\ calls' = <<>>
    /\ pass_start' = 0
    /\ UNCHANGED <<active, channels, volume>>

\* for msg in mido.parse_all(data): self._handle_mido_message(msg)
HandleMido(show_note_ok) ==
    /\ pc = "handle" /\ path = "mido"
    /\ i < Len(msgs)
    /\ LET ev == _handle_mido_message(msgs[i + 1], control_change_cb)
       IN  /\ calls' = Called(ev)
           /\ SetEngine(CallbackEngine(Engine, ev))
           /\ IF CallbackRaises(ev, show_note_ok)
              THEN /\ path' = "fallback"      \* except Exception: pass
                   /\ i' = 0
                   /\ pass_start' = Len(calls')
              ELSE /\ path' = path
                   /\ i' = i + 1
                   /\ pass_start' = pass_start
    /\ UNCHANGED <<mido, control_change_cb, running, sock_open, pc, data, msgs,
                   caught, stop_returned, ui, synth>>

\* the mido loop is over: return
HandleMidoReturn ==
    /\ pc = "handle" /\ path = "mido"
    /\ i >= Len(msgs)
    /\ Return
    /\ UNCHANGED <<mido, control_change_cb, running, sock_open,
                   caught, stop_returned, ui, synth>>

\* one iteration of the fallback scan that reads a supported message
HandleFallbackMessage(show_note_ok) ==
    /\ pc = "handle" /\ path = "fallback"
    /\ i < Len(data)
    /\ FallbackMessageAt(data, i)
    /\ LET ev == FallbackEvent(data, i, control_change_cb)
       IN  /\ calls' = Called(ev)
           /\ SetEngine(CallbackEngine(Engine, ev))
           /\ IF CallbackRaises(ev, show_note_ok)
              THEN /\ pc' = "except"          \* the exception leaves handle_packet
                   /\ i' = i
              ELSE /\ pc' = pc
                   /\ i' = i + 3
    /\ UNCHANGED <<mido, control_change_cb, running, sock_open, data, path, msgs,
                   pass_start,
                   caught, stop_returned, ui, synth>>

\* one iteration of the fallback scan that skips a byte
HandleFallbackSkip ==
    /\ pc = "handle" /\ path = "fallback"
    /\ i < Len(data)
    /\ ~FallbackMessageAt(data, i)
    /\ i' = i + 1
    /\ UNCHANGED <<mido, control_change_cb, running, sock_open, pc, data, path,
                   msgs, calls, pass_start, active, channels, volume,
                   caught, stop_returned, ui, synth>>

\* the fallback scan is over: return
HandleFallbackReturn ==
    /\ pc = "handle" /\ path = "fallback"
    /\ i >= Len(data)
    /\ Return
    /\ UNCHANGED <<mido, control_change_cb, running, sock_open,
                   caught, stop_returned, ui, synth>>

(***************************************************************************)
(* pygame.mixer: a voice ends (played to its end, or faded out)            *)
(***************************************************************************)
VoiceEnds(c) ==
    /\ channels[c] # Idle
    /\ channels' = [channels EXCEPT ![c] = Idle]
    /\ UNCHANGED <<mido, control_change_cb, running, sock_open, pc, data, path,
                   msgs, i, calls, pass_start, active, volume,
                   caught, stop_returned, ui, synth>>

(***************************************************************************)
(* MidiUI: main.note_on calls show_note in the receive thread; the Tk main *)
(* loop runs the timers and the resize handler                             *)
(***************************************************************************)
UIFrame ==
    UNCHANGED <<mido, control_change_cb, running, sock_open, pc, data, path,
                msgs, i, calls, pass_start, active, channels, volume, caught,
                stop_returned, synth>>

\* ui.show_note(note, velocity), called by main.note_on from handle_packet
ShowNote(note, velocity) ==
    /\ ui.hits < MaxHits
    /\ ui' = show_note(ui, note, velocity, "recv")
    /\ UIFrame

\* the root.after callback of animation a runs in the main loop
TimerFires(a) ==
    /\ a \in DOMAIN ui.timers
    /\ ui' = animate_step(ui, a, ui.timers[a].drum, ui.timers[a].step_count)
    /\ UIFrame

\* a <Configure> event of the canvas runs _on_resize in the main loop
Resize ==
    /\ ui' = _on_resize(ui)
    /\ UIFrame

(***************************************************************************)
(* AudioEngine._generate_drum_samples: one recipe finishes                 *)
(***************************************************************************)
Synthesize ==
    /\ synth.stage = "wave"
    /\ synth' = [synth EXCEPT !.stage = "sound",
                              !.audio = to_int16(synth.wave, synth.drum)]
    /\ UNCHANGED <<mido, control_change_cb, running, sock_open, pc, data, path,
                   msgs, i, calls, pass_start, active, channels, volume, caught,
                   stop_returned, ui>>

(***************************************************************************)
(* Specifications                                                          *)
(***************************************************************************)
HandlePacket ==
    \/ \E ok \in BOOLEAN : HandleMido(ok)
    \/ HandleMidoReturn
    \/ \E ok \in BOOLEAN : HandleFallbackMessage(ok)
    \/ HandleFallbackSkip
    \/ HandleFallbackReturn

Next ==
    \/ LoopTest
    \/ \E d \in Datagrams : Receive(d)
    \/ ReceiveError
    \/ ExceptHandler
    \/ Stop
    \/ StopJoin
    \/ HandlePacket
    \/ \E c \in 1..NumChannels : VoiceEnds(c)

Spec == Init /\ [][Next]_vars

NextParser == HandlePacket

SpecParser == InitParser /\ [][NextParser]_vars

NextUI ==
    \/ \E note \in UINotes, velocity \in UIVelocities : ShowNote(note, velocity)
    \/ \E a \in 1..MaxHits : TimerFires(a)
    \/ Resize

SpecUI == Init /\ [][NextUI]_vars

NextSynth == Synthesize

SpecSynth == InitSynth /\ [][NextSynth]_vars

(***************************************************************************)
(* Vocabulary of the properties                                            *)
(***************************************************************************)
\* handle_packet is about to return normally
AtReturn ==
    /\ pc = "handle"
    /\ \/ path = "mido" /\ i >= Len(msgs)
       \/ path = "fallback" /\ i >= Len(data)

\* the callbacks made by the parse pass that is running now
ThisPass == SubSeq(calls, pass_start + 1, Len(calls))

\* the callbacks the mido pass made before one of them raised
MidoPass == SubSeq(calls, 1, pass_start)

IsPrefix(s, t) == Len(s) <= Len(t) /\ s = SubSeq(t, 1, Len(s))

\* a supported status byte: 0x8n, 0x9n, 0xBn
IsSupportedStatus(byte) == byte \div 16 \in {8, 9, 11}

\* d is a concatenation of complete supported 3-byte messages
IsMsgConcat(d) ==
    /\ Len(d) % 3 = 0
    /\ \A m \in 0..((Len(d) \div 3) - 1) :
        /\ IsSupportedStatus(d[3 * m + 1])
        /\ d[3 * m + 2] < 128
        /\ d[3 * m + 3] < 128

\* the event a complete supported message stands for
EventOfMessage(s, a, b) ==
    IF s \div 16 = 9 /\ b > 0 THEN [kind |-> "note_on", a |-> a, b |-> b]
    ELSE IF s \div 16 \in {8, 9} THEN [kind |-> "note_off", a |-> a, b |-> 0]
    ELSE [kind |-> "control_change", a |-> a, b |-> b]

\* the events of a concatenation of complete supported messages, in the order
\* of the messages; a ControlChange has a callback only when one is registered
RECURSIVE ExpectedEvents(_, _)
ExpectedEvents(d, cc) ==
    IF Len(d) < 3 THEN <<>>
    ELSE LET ev == EventOfMessage(d[1], d[2], d[3])
             rest == ExpectedEvents(SubSeq(d, 4, Len(d)), cc)
         IN  IF ev.kind = "control_change" /\ ~cc THEN rest ELSE <<ev>> \o rest

(***************************************************************************)
(* C1: for every byte buffer, handle_packet never raises by itself and     *)
(* every callback it makes carries a note and a velocity/value in 0..127.  *)
(* The fallback scan passes data[i+1] and data[i+2] on unmasked, so this   *)
(* fails: [0x90, 0x80, 0xFF] gives note_on(128, 255).                      *)
(***************************************************************************)
C1_CallbackArgsAre7Bit ==
    /\ \A k \in 1..Len(calls) : calls[k].a \in 0..127 /\ calls[k].b \in 0..127
    /\ pc = "except" => calls # <<>> /\ calls[Len(calls)].kind = "note_on"

(***************************************************************************)
(* C2: a NoteOn with velocity 0 is never passed on as a note_on: the       *)
(* buffer [0x9n, k, 0x00] (k in 0..127) produces exactly one note_off(k)   *)
(* callback and no note_on callback.                                       *)
(***************************************************************************)
IsZeroVelocityNoteOn(d) ==
    Len(d) = 3 /\ d[1] \div 16 = 9 /\ d[2] < 128 /\ d[3] = 0

C2_ZeroVelocityNoteOnIsNoteOff ==
    IsZeroVelocityNoteOn(data) =>
        /\ \A k \in 1..Len(calls) : calls[k].kind # "note_on"
        /\ IsPrefix(calls, <<[kind |-> "note_off", a |-> data[2], b |-> 0]>>)
        /\ pc # "except"
        /\ AtReturn => calls = <<[kind |-> "note_off", a |-> data[2], b |-> 0]>>

C2_Witness ==
    /\ AtReturn
    /\ data = <<144, 36, 0>>
    /\ calls = <<[kind |-> "note_off", a |-> 36, b |-> 0]>>

(***************************************************************************)
(* C3: the events of one datagram are dispatched in the order of their     *)
(* messages: for a datagram that is a concatenation of complete supported  *)
(* messages, every parse pass calls back in message order, and when        *)
(* handle_packet returns the callbacks of the pass are exactly the         *)
(* messages' events.  calls holds only callbacks of the datagram in data,  *)
(* which the receive loop replaces only after handle_packet has ended, so  *)
(* every callback of one datagram precedes every callback of the next.     *)
(***************************************************************************)
C3_DispatchInMessageOrder ==
    (pc \in {"handle", "except"} /\ IsMsgConcat(data)) =>
        /\ IsPrefix(ThisPass, ExpectedEvents(data, control_change_cb))
        /\ IsPrefix(MidoPass, ExpectedEvents(data, control_change_cb))
        /\ AtReturn => ThisPass = ExpectedEvents(data, control_change_cb)

C3_Witness ==
    /\ AtReturn
    /\ data = <<153, 36, 100, 137, 36, 64>>
    /\ calls = <<[kind |-> "note_on", a |-> 36, b |-> 100],
                 [kind |-> "note_off", a |-> 36, b |-> 0]>>

(***************************************************************************)
(* C4: an incomplete trailing message is dropped silently: when a datagram *)
(* ends with a supported status byte followed by fewer than two bytes,     *)
(* after complete supported messages, no callback is made for the status   *)
(* byte or what follows it, the parser raises nothing, and the callbacks   *)
(* made are those of the complete messages before it.                      *)
(***************************************************************************)
\* the length (1 or 2) of the truncated message d ends with, 0 when d does not
\* end with one after a concatenation of complete supported messages
TruncatedTail(d) ==
    LET t == Len(d) % 3
    IN  IF /\ t > 0
           /\ IsSupportedStatus(d[Len(d) - t + 1])
           /\ IsMsgConcat(SubSeq(d, 1, Len(d) - t))
        THEN t ELSE 0

Complete(d) == SubSeq(d, 1, Len(d) - TruncatedTail(d))

C4_TruncatedTailDropped ==
    (pc \in {"handle", "except"} /\ TruncatedTail(data) > 0) =>
        /\ IsPrefix(ThisPass, ExpectedEvents(Complete(data), control_change_cb))
        /\ IsPrefix(MidoPass, ExpectedEvents(Complete(data), control_change_cb))
        /\ AtReturn => ThisPass = ExpectedEvents(Complete(data), control_change_cb)
        /\ pc = "except" => calls # <<>> /\ calls[Len(calls)].kind = "note_on"

C4_Witness ==
    /\ AtReturn
    /\ data = <<153, 36, 100, 144, 36>>
    /\ calls = <<[kind |-> "note_on", a |-> 36, b |-> 100]>>

(***************************************************************************)
(* Steps of the engine, read off the callback log                          *)
(***************************************************************************)
\* this step made a callback
CallMade == Len(calls') = Len(calls) + 1

\* this step called AudioEngine.note_on (trigger) / note_off (release)
TriggerMade == CallMade /\ calls'[Len(calls')].kind = "note_on"
ReleaseMade == CallMade /\ calls'[Len(calls')].kind = "note_off"

\* the note of the callback this step made
CalledNote == calls'[Len(calls')].a

(***************************************************************************)
(* C5: release(note) for a note whose voice has already finished playing   *)
(* is a silent no-op: it fades or stops no voice.  The engine keeps the    *)
(* channel of the finished voice in _active and fades whatever plays on it *)
(* now, so this fails once the channel has been taken by another note.     *)
(***************************************************************************)
C5_ReleaseOfFinishedVoiceFadesNothing ==
    [][(/\ ReleaseMade
        /\ CalledNote \in DOMAIN active
        /\ channels[active[CalledNote]].note # CalledNote)
       => channels' = channels]_vars

(***************************************************************************)
(* C6: a release(n) leaves no entry for n in the active-voices table, and  *)
(* a release(n) of a note with no tracked handle makes no fade request,    *)
(* changes no state of the engine and raises nothing.                      *)
(***************************************************************************)
C6_ReleaseLeavesNoHandle ==
    [][ReleaseMade =>
        /\ CalledNote \notin DOMAIN active'
        /\ pc' # "except"
        /\ CalledNote \notin DOMAIN active =>
              UNCHANGED <<active, channels, volume>>]_vars

C6_Witness ==
    /\ calls = <<[kind |-> "note_on", a |-> 36, b |-> 100],
                 [kind |-> "note_off", a |-> 36, b |-> 0],
                 [kind |-> "note_off", a |-> 36, b |-> 0]>>
    /\ 36 \notin DOMAIN active
    /\ \E c \in 1..NumChannels : channels[c].note = 36 /\ channels[c].fading

(***************************************************************************)
(* C7: the table tracks at most one handle per note; a trigger(n, v) that  *)
(* acquires a channel makes that channel the tracked handle of n and       *)
(* leaves every other channel, the earlier voice of n among them, as it    *)
(* was (not stopped, not faded); a release(n) touches only the channel     *)
(* tracked for n.                                                          *)
(***************************************************************************)
C7_TriggerReplacesTrackedHandle ==
    [][/\ active' \in [DOMAIN active' -> 1..NumChannels]
       /\ (TriggerMade /\ play(channels) # None) =>
            /\ active'[CalledNote] = play(channels)
            /\ channels'[play(channels)].note = CalledNote
            /\ ~channels'[play(channels)].fading
            /\ \A c \in 1..NumChannels \ {play(channels)} :
                  channels'[c] = channels[c]
            /\ \A m \in DOMAIN active \ {CalledNote} :
                  m \in DOMAIN active' /\ active'[m] = active[m]
       /\ (ReleaseMade /\ CalledNote \in DOMAIN active) =>
            /\ \A c \in 1..NumChannels \ {active[CalledNote]} :
                  channels'[c] = channels[c]
            /\ channels[active[CalledNote]].note = CalledNote =>
                  channels'[active[CalledNote]].fading]_vars

C7_Witness ==
    /\ channels[1] = [sound |-> "kick", note |-> 36, fading |-> FALSE]
    /\ channels[2] = [sound |-> "kick", note |-> 36, fading |-> TRUE]
    /\ 36 \notin DOMAIN active
    /\ calls # <<>> /\ calls[Len(calls)].kind = "note_off"

(***************************************************************************)
(* C8: every note number 0..127 resolves to a timbre of the Voice Bank:    *)
(* the 17 mapped notes (35, 36, 38, 40..53) to their category, every other *)
(* note to snare; so no trigger returns without a timbre, and every voice  *)
(* that plays is of the timbre of its note.                                *)
(***************************************************************************)
MappedCategory(n) ==
    CASE n \in {35, 36} -> "kick"
      [] n \in {38, 40} -> "snare"
      [] n \in {42, 44} -> "hihat_closed"
      [] n = 46 -> "hihat_open"
      [] n \in {41, 43, 47} -> "tom_low"
      [] n \in {45, 48} -> "tom_mid"
      [] n = 50 -> "tom_high"
      [] n \in {49, 52} -> "crash"
      [] n \in {51, 53} -> "ride"
      [] OTHER -> "snare"

\* every note number resolves to a timbre of the bank, the one of its category
EveryNoteResolves ==
    \A n \in 0..127 :
        drum_type(n) \in drum_samples /\ drum_type(n) = MappedCategory(n)

C8_EveryNoteHasATimbre ==
    /\ EveryNoteResolves
    /\ DOMAIN volume = drum_samples
    /\ \A c \in 1..NumChannels :
          channels[c] # Idle =>
              /\ channels[c].sound \in drum_samples
              /\ channels[c].note \in 0..127 =>
                    channels[c].sound = MappedCategory(channels[c].note)

C8_Witness ==
    /\ \E c \in 1..NumChannels : channels[c] = [sound |-> "snare", note |-> 127, fading |-> FALSE]
    /\ \E c \in 1..NumChannels : channels[c] = [sound |-> "kick", note |-> 36, fading |-> FALSE]

(***************************************************************************)
(* C9: a trigger that finds every channel busy is dropped without raising: *)
(* no handle is recorded and no channel changes; a trigger that finds a    *)
(* free channel plays on it and is tracked.                                *)
(***************************************************************************)
AllBusy(chs) == \A c \in 1..NumChannels : chs[c] # Idle

C9_TriggerDroppedWhenAllBusy ==
    [][TriggerMade =>
        /\ AllBusy(channels) => active' = active /\ channels' = channels
        /\ ~AllBusy(channels) =>
              /\ CalledNote \in DOMAIN active'
              /\ channels[active'[CalledNote]] = Idle
              /\ channels'[active'[CalledNote]] =
                    [sound |-> drum_type(CalledNote), note |-> CalledNote,
                     fading |-> FALSE]]_vars

C9_Witness ==
    /\ \A c \in 1..NumChannels : channels[c].note = 36
    /\ calls # <<>>
    /\ calls[Len(calls)] = [kind |-> "note_on", a |-> 127, b |-> 100]
    /\ 127 \notin DOMAIN active
    /\ pc = "handle"

(***************************************************************************)
(* C10: a failure of the visual observer while it handles one NoteOn does  *)
(* not abort dispatch: the engine still receives that event and every      *)
(* later event of the datagram, in order, as if the observer had           *)
(* succeeded.  main.note_on lets the exception of ui.show_note out, which  *)
(* ends the fallback scan (and restarts the datagram after a mido pass),   *)
(* so this fails.                                                          *)
(***************************************************************************)
C10_ObserverFailureDoesNotAbortDispatch ==
    ((AtReturn \/ pc = "except") /\ IsMsgConcat(data)) =>
        calls = ExpectedEvents(data, control_change_cb)

(***************************************************************************)
(* C11: the receive loop survives a failure raised while a packet is       *)
(* handled.  From the exception handler the thread goes back to the loop   *)
(* test and nowhere else; what leaves a receive is a packet on its way     *)
(* through handle_packet or the end of the loop; and the loop ends only at *)
(* a loop test that finds the stop request, or at a receive that fails.    *)
(***************************************************************************)
C11_LoopSurvivesCallbackFailure ==
    [][/\ pc = "except" => pc' \in {"except", "loop"}
       /\ (pc = "recv" /\ pc' # "recv") =>
              \/ pc' = "handle" /\ data' \in Datagrams /\ i' = 0 /\ calls' = <<>>
              \/ pc' = "ended"
       /\ (pc # "ended" /\ pc' = "ended") =>
              \/ pc = "loop" /\ ~running
              \/ pc = "recv"]_vars

\* a packet received after a callback failure has had an event dispatched
C11_Witness == caught /\ pc = "handle" /\ calls # <<>>

(***************************************************************************)
(* C13: once stop() has returned, the socket is closed and the receive     *)
(* loop has ended, whatever the loop was doing when stop() was called.     *)
(***************************************************************************)
C13_StopReturnsAfterLoopEnded ==
    stop_returned => ~sock_open /\ pc = "ended"

(***************************************************************************)
(* C14: a receive error ends the receive loop only when the socket is gone *)
(* or a stop was requested.                                                *)
(***************************************************************************)
C14_ReceiveErrorEndsLoopOnlyWhenStopping ==
    [][(pc = "recv" /\ pc' = "ended") => (~running \/ ~sock_open)]_vars

(***************************************************************************)
(* C12: every execution of show_note runs in the context of the UI loop,   *)
(* never in the network receive thread.                                    *)
(***************************************************************************)
C12_ShowNoteRunsInUILoop == ui.show_note_thread # "recv"

(***************************************************************************)
(* C15: every synthesized timbre buffer has a peak absolute amplitude no   *)
(* greater than its ceiling (0.9 kick, 0.85 snare, 0.6 closed hi-hat, 0.5  *)
(* open hi-hat, 0.8 toms, 0.6 crash, 0.65 ride) of the 16-bit full scale,  *)
(* every sample fits a signed 16-bit integer, and the buffer is not silent.*)
(***************************************************************************)
C15_TimbreWithinCeiling ==
    synth.stage = "sound" =>
        /\ DOMAIN synth.audio = 1..NumSamples
        /\ \A k \in 1..NumSamples :
            /\ 100 * Abs(synth.audio[k]) <= ceiling[synth.drum] * full_scale
            /\ synth.audio[k] \in -32768..32767
        /\ \E k \in 1..NumSamples : synth.audio[k] # 0

C15_Witness ==
    /\ synth.stage = "sound"
    /\ synth.drum = "kick"
    /\ \E k \in 1..NumSamples : synth.audio[k] = -29490
    /\ \E k \in 1..NumSamples : synth.audio[k] = 14745

(***************************************************************************)
(* C16: the fallback scan resynchronises after bytes it cannot interpret:  *)
(* for a buffer made of bytes none of which is a supported status byte,    *)
(* followed by one complete supported 3-byte message, every parse pass     *)
(* dispatches the event of that message and nothing else.                  *)
(***************************************************************************)
\* d is such a buffer
IsJunkThenMessage(d) ==
    /\ Len(d) >= 3
    /\ \A k \in 1..(Len(d) - 3) : ~IsSupportedStatus(d[k])
    /\ IsMsgConcat(SubSeq(d, Len(d) - 2, Len(d)))

LastMessage(d) == SubSeq(d, Len(d) - 2, Len(d))

C16_ResynchronisesAfterJunk ==
    (pc \in {"handle", "except"} /\ IsJunkThenMessage(data)) =>
        /\ IsPrefix(ThisPass, ExpectedEvents(LastMessage(data), control_change_cb))
        /\ IsPrefix(MidoPass, ExpectedEvents(LastMessage(data), control_change_cb))
        /\ AtReturn => ThisPass = ExpectedEvents(LastMessage(data), control_change_cb)
        /\ (path = "fallback" /\ i < Len(data) - 3) => ThisPass = <<>>

C16_Witness ==
    /\ AtReturn
    /\ path = "fallback"
    /\ data = <<36, 192, 255, 153, 36, 100>>
    /\ calls = <<[kind |-> "note_on", a |-> 36, b |-> 100]>>

(***************************************************************************)
(* C17: each datagram is parsed independently of the earlier ones.  The    *)
(* bytes handle_packet parses are those of one received datagram; the      *)
(* callbacks of a parse pass are the events read off those bytes alone     *)
(* (ScanEvents is a function of the datagram); [0x90, 0x24] followed by    *)
(* [0x64] produces no event, and a datagram of data bytes only never       *)
(* produces an event.                                                      *)
(***************************************************************************)
\* the events of the supported messages found in d from offset j on, scanning as
\* handle_packet scans
RECURSIVE ScanEvents(_, _, _)
ScanEvents(d, j, cc) ==
    IF j >= Len(d) THEN <<>>
    ELSE IF FallbackMessageAt(d, j)
    THEN LET ev == FallbackEvent(d, j, cc)
         IN  (IF ev.kind = "none" THEN <<>> ELSE <<ev>>) \o ScanEvents(d, j + 3, cc)
    ELSE ScanEvents(d, j + 1, cc)

C17_DatagramsParsedIndependently ==
    pc \in {"handle", "except"} =>
        /\ data \in Datagrams
        /\ IsPrefix(ThisPass, ScanEvents(data, 0, control_change_cb))
        /\ IsPrefix(MidoPass, ScanEvents(data, 0, control_change_cb))
        /\ AtReturn => ThisPass = ScanEvents(data, 0, control_change_cb)
        /\ data = <<144, 36>> => calls = <<>>
        /\ (\A k \in 1..Len(data) : data[k] < 128) => calls = <<>>

\* the velocity byte alone has been scanned to its end, after an earlier
\* datagram triggered note 0x24: nothing was dispatched
C17_Witness ==
    /\ AtReturn
    /\ data = <<100>>
    /\ calls = <<>>
    /\ 36 \in DOMAIN active

(***************************************************************************)
(* C18: the gain of a voice is fixed by the velocity of the trigger that   *)
(* started it: no step changes the gain of a voice that is in flight       *)
(* before and after the step.  The gain of a voice is the volume of the    *)
(* Sound it plays.                                                         *)
(***************************************************************************)
Gain(chs, vol, c) == vol[chs[c].sound]

C18_GainOfVoiceInFlightIsFixed ==
    [][\A c \in 1..NumChannels :
          (channels[c] # Idle /\ channels'[c] # Idle) =>
              Gain(channels', volume', c) = Gain(channels, volume, c)]_vars

(***************************************************************************)
(* C19: handle_packet dispatches each message of a datagram at most once,  *)
(* also when a callback raises part-way: for a datagram that is a          *)
(* concatenation of complete supported messages, all the callbacks made    *)
(* so far are the events of its first messages, one callback per message.  *)
(***************************************************************************)
C19_EachMessageDispatchedAtMostOnce ==
    (pc \in {"handle", "except"} /\ IsMsgConcat(data)) =>
        IsPrefix(calls, ExpectedEvents(data, control_change_cb))

(***************************************************************************)
(* C20: drum-hit animations clean up after themselves: at most one         *)
(* animation timer is pending per drum, and whenever no timer is pending   *)
(* the canvas holds no ripple item and drum_animations is empty.           *)
(***************************************************************************)
PendingTimers(drum_name) ==
    {a \in DOMAIN ui.timers : ui.timers[a].drum = drum_name}

C20_AnimationsCleanUp ==
    /\ \A n \in DOMAIN note_to_drum :
          Cardinality(PendingTimers(note_to_drum[n])) <= 1
    /\ DOMAIN ui.timers = {} =>
          /\ ui.canvas = {}
          /\ DOMAIN ui.drum_animations = {}

====
